---------------------------- MODULE Spec2Model ----------------------------
(***************************************************************************)
(* Model of truck-geotrait/src/traits/curve.rs: the parametric curve       *)
(* contract, the default methods built on it (front, back,                 *)
(* parameter_transformed), ConcatError::point_map, the CurveCollector      *)
(* state machine and the two-point step curve `(usize, usize)`.            *)
(*                                                                         *)
(* Three client programs are modelled, one specification each:             *)
(*   Spec           a client folding segments into a CurveCollector;       *)
(*   SpecTransform  a client (and the random test harness) calling the     *)
(*                  default ParameterTransform::parameter_transformed;     *)
(*   SpecCurve      a client evaluating the reference curves and mapping   *)
(*                  ConcatError values.                                    *)
(* f64 parameters are fixed-point numbers counted in units of 1/One.       *)
(***************************************************************************)
EXTENDS Integers, Sequences, FiniteSets, TLC

VARIABLES
    collector,  \* the CurveCollector<C> value owned by the client
    calls,      \* history of CurveCollector::try_concat calls: [seg, ok]
    ret,        \* what the last collector operation returned to the client
    tcurve,     \* the curve `parameter_transformed` is called on (`curve`)
    stackLimit, \* number of call frames the thread's stack can hold
    call,       \* the outermost call's receiver and arguments, as passed
    stack,      \* the call frames of parameter_transformed, outermost first
    proc,       \* the thread: "idle", "running" (inside the outermost call),
                \* "returned" (the call returned) or "overflow" (aborted)
    transformed,\* the value the outermost call returned (`transformed`)
    trials,     \* parameter_transform_random_test: its `trials` argument
    trial,      \* parameter_transform_random_test: trials finished so far
    hpc,        \* where the random test is: "none", "loop", "sign", "draw",
                \* "asserts", "assert_failed" or "done"
    sign,       \* exec_parameter_transform_random_test: `sign`
    a,          \* exec_parameter_transform_random_test: `a`
    b,          \* exec_parameter_transform_random_test: `b`
    norm,       \* the last parameter_normalization call: the range it read
                \* and the parameter_transform calls it made
    scurve,     \* the reference curve a client evaluates: () or (usize, usize)
    overflowChecks, \* whether the build checks integer arithmetic for overflow
    out         \* the last evaluation a client made and what it gave

collectorVars == <<collector, calls, ret>>

transformVars ==
    <<tcurve, stackLimit, call, stack, proc, transformed, trials, trial, hpc, sign, a, b,
      norm>>

curveVars == <<scurve, overflowChecks, out>>

vars == <<collector, calls, ret, tcurve, stackLimit, call, stack, proc, transformed,
          trials, trial, hpc, sign, a, b, norm, scurve, overflowChecks, out>>

---------------------------------------------------------------------------
(* Bounds of the model *)

\* largest parameter value of a segment end
MaxT == 1
\* number of CurveCollector::try_concat calls a client makes
MaxCalls == 3
\* largest number of call frames a thread's stack holds
MaxStack == 3
\* largest trial count given to parameter_transform_random_test
MaxTrials == 2
\* largest magnitude of a scalar a client passes, in units of 1/One
MaxScalar == 4
\* largest magnitude of a move a client passes, in units of 1/One
MaxMove == 4
\* width of usize in the model, in bits
UsizeBits == 3
\* largest end of the parameter range of a curve that is reparametrized, in
\* whole units
MaxRange == 3

---------------------------------------------------------------------------
(* Segments (the type Rhs) and accumulated curves (the type C)             *)

\* The values of C::Point.  Points are only compared for equality.
PointValues == {0, 1}

\* A segment: a curve piece on [t0, t1], t0 <= t1, running from point p0 to
\* point p1.
Segments ==
    { s \in [t0 : 0..MaxT, t1 : 0..MaxT, p0 : PointValues, p1 : PointValues] :
        s.t0 <= s.t1 }

\* <Rhs as ParametricCurve>::parameter_range
seg_parameter_range(s) == <<s.t0, s.t1>>

\* <Rhs as ParametricCurve>::front
seg_front(s) == s.p0

\* <Rhs as ParametricCurve>::back
seg_back(s) == s.p1

\* <Rhs as Into<C>>::into : a segment becomes a one-piece curve of type C.
into(s) == <<s>>

\* <C as ParametricCurve>::parameter_range : from the first piece's start to
\* the last piece's end.
poly_parameter_range(c) == <<c[1].t0, c[Len(c)].t1>>

\* <C as ParametricCurve>::back : the end point of the last piece.
poly_back(c) == seg_back(c[Len(c)])

\* Values of Result<_, ConcatError<Point>>.  The unused fields hold 0.
Ok(v) == [ok |-> TRUE, value |-> v, err |-> [kind |-> "none", a |-> 0, b |-> 0]]

DisconnectedParameters(x, y) == [kind |-> "DisconnectedParameters", a |-> x, b |-> y]

DisconnectedPoints(p, q) == [kind |-> "DisconnectedPoints", a |-> p, b |-> q]

Err(e) == [ok |-> FALSE, value |-> <<>>, err |-> e]

\* <C as Concat<Rhs>>::try_concat : the parameter ranges must abut exactly,
\* then the end point must equal the start point; the result is the curve
\* followed by the segment.
Concat_try_concat(c, rhs) ==
    IF poly_parameter_range(c)[2] # seg_parameter_range(rhs)[1]
    THEN Err(DisconnectedParameters(poly_parameter_range(c)[2], seg_parameter_range(rhs)[1]))
    ELSE IF poly_back(c) # seg_front(rhs)
         THEN Err(DisconnectedPoints(poly_back(c), seg_front(rhs)))
         ELSE Ok(Append(c, rhs))

---------------------------------------------------------------------------
(* CurveCollector<C>                                                       *)

\* enum CurveCollector<C> { Singleton, Curve(C) }; "Moved" is a collector
\* that unwrap or Option::from has consumed.
Singleton == [tag |-> "Singleton", curve |-> <<>>]

Curve(c) == [tag |-> "Curve", curve |-> c]

Moved == [tag |-> "Moved", curve |-> <<>>]

\* Variant of CurveCollector::try_concat that treats the empty collector as
\* an empty curve ending at parameter 0 and validates the first segment
\* against it.
CurveCollector_try_concat_checked_seed(self, curve) ==
    IF self.tag = "Singleton"
    THEN IF seg_parameter_range(curve)[1] # 0
         THEN [self |-> self,
               ret |-> Err(DisconnectedParameters(0, seg_parameter_range(curve)[1])),
               curve |-> curve, checks |-> 1]
         ELSE [self |-> Curve(into(curve)), ret |-> Ok(Curve(into(curve))),
               curve |-> curve, checks |-> 1]
    ELSE LET r == Concat_try_concat(self.curve, curve) IN
         IF r.ok
         THEN [self |-> Curve(r.value), ret |-> Ok(Curve(r.value)),
               curve |-> curve, checks |-> 1]
         ELSE [self |-> self, ret |-> Err(r.err), curve |-> curve, checks |-> 1]

\* Variant of CurveCollector::try_concat that takes the held curve out of
\* the collector before concatenating, and so loses it when the
\* concatenation fails.
CurveCollector_try_concat_take(self, curve) ==
    IF self.tag = "Singleton"
    THEN [self |-> Curve(into(curve)), ret |-> Ok(Curve(into(curve))),
          curve |-> curve, checks |-> 0]
    ELSE LET r == Concat_try_concat(self.curve, curve) IN
         IF r.ok
         THEN [self |-> Curve(r.value), ret |-> Ok(Curve(r.value)),
               curve |-> curve, checks |-> 1]
         ELSE [self |-> Singleton, ret |-> Err(r.err), curve |-> curve, checks |-> 1]

\* Variant of CurveCollector::try_concat that, on success, keeps the new
\* segment alone instead of the concatenated curve.
CurveCollector_try_concat_replace(self, curve) ==
    IF self.tag = "Singleton"
    THEN [self |-> Curve(into(curve)), ret |-> Ok(Curve(into(curve))),
          curve |-> curve, checks |-> 0]
    ELSE LET r == Concat_try_concat(self.curve, curve) IN
         IF r.ok
         THEN [self |-> Curve(into(curve)), ret |-> Ok(Curve(into(curve))),
               curve |-> curve, checks |-> 1]
         ELSE [self |-> self, ret |-> Err(r.err), curve |-> curve, checks |-> 1]

\* CurveCollector::try_concat(&mut self, curve: &Rhs).  Gives the collector
\* after the call, the value returned (Ok(self) is shown as Ok of the
\* collector's new value), the borrowed argument after the call and the
\* number of times C::try_concat was invoked.
CurveCollector_try_concat(self, curve) ==
    IF self.tag = "Singleton"
    THEN [self |-> Curve(into(curve)),
          ret |-> Ok(Curve(into(curve))),
          curve |-> curve,
          checks |-> 0]
    ELSE LET r == Concat_try_concat(self.curve, curve) IN
         IF r.ok
         THEN [self |-> Curve(r.value), ret |-> Ok(Curve(r.value)),
               curve |-> curve, checks |-> 1]
         ELSE [self |-> self, ret |-> Err(r.err), curve |-> curve, checks |-> 1]

\* Variant of CurveCollector::is_singleton with the two match arms swapped.
is_singleton_swapped(self) == self.tag = "Curve"

\* CurveCollector::is_singleton(&self)
is_singleton(self) == self.tag = "Singleton"

\* Variant of CurveCollector::unwrap that returns an empty curve for
\* Singleton instead of panicking.
unwrap_or_default(self) == [panicked |-> FALSE, value |-> self.curve]

\* CurveCollector::unwrap(self): the held curve, or a panic.
unwrap(self) ==
    IF self.tag = "Curve"
    THEN [panicked |-> FALSE, value |-> self.curve]
    ELSE [panicked |-> TRUE, value |-> <<>>]

\* Values of Option<C>.
None == [some |-> FALSE, value |-> <<>>]

Some(c) == [some |-> TRUE, value |-> c]

\* <Option<C> as From<CurveCollector<C>>>::from(collector)
from(c) ==
    IF c.tag = "Singleton" THEN None ELSE Some(c.curve)

\* Nothing has been returned to the client yet.
NoRet == [op |-> "none"]

\* The collector before its client has used it.
CollectorIdle ==
    /\ collector = Singleton
    /\ calls = <<>>
    /\ ret = NoRet

---------------------------------------------------------------------------
(* Fixed-point f64 values and the curves of the reparametrization test      *)

\* The literal 0.5 (curve.rs:204 and curve.rs:300), in units of 1/One.
Half == 2

\* The value 1.0.
One == 2 * Half

\* |n|
Abs(n) == IF n < 0 THEN -n ELSE n

\* n / d rounded to the nearest integer, ties to even, the same way for
\* both signs, as f64 arithmetic rounds its results.
RoundDiv(n, d) ==
    LET q == Abs(n) \div Abs(d)
        r == Abs(n) % Abs(d)
        m == IF 2 * r > Abs(d) \/ (2 * r = Abs(d) /\ q % 2 = 1) THEN q + 1 ELSE q
    IN  IF (n < 0) = (d < 0) THEN m ELSE -m

\* x * y for fixed-point x and y.
FMul(x, y) == RoundDiv(x * y, One)

\* x / y for fixed-point x and y, y # 0.
FDiv(x, y) == RoundDiv(x * One, y)

\* A curve implementing ParameterTransform: its parameter range (t0, t1) in
\* fixed point, and its two end points.
TransformCurves ==
    { c \in [t0 : {i * One : i \in 0..MaxRange}, t1 : {i * One : i \in 0..MaxRange},
             p0 : PointValues, p1 : PointValues] : c.t0 <= c.t1 }

NoCurve == [t0 |-> 0, t1 |-> 0, p0 |-> -1, p1 |-> -1]

\* <C as ParametricCurve>::parameter_range
parameter_range(c) == <<c.t0, c.t1>>

\* <C as ParametricCurve>::front and back of the implementer: the end points
\* stay where they are under reparametrization.
curve_front(c) == c.p0

curve_back(c) == c.p1

\* <C as Clone>::clone
clone(c) == [t0 |-> c.t0, t1 |-> c.t1, p0 |-> c.p0, p1 |-> c.p1]

\* <C as ParameterTransform>::parameter_transform(scalar, move): the affine
\* law, the range (t0, t1) becomes (t0 * scalar + move, t1 * scalar + move).
parameter_transform(c, scalar, move) ==
    [c EXCEPT !.t0 = FMul(c.t0, scalar) + move, !.t1 = FMul(c.t1, scalar) + move]

\* ParameterTransform::parameter_normalization(&mut self):
\*   line 65  let (t0, t1) = self.parameter_range();
\*   line 66  let a = 1.0 / (t1 - t0);
\*   line 67  let b = -t0 * a;
\*   line 68  self.parameter_transform(a, b)
\* Gives the curve after the call and the parameter_transform calls made.
\* With t0 = t1 the division gives an infinite a and the range is no longer
\* finite: the record says so and carries no numbers.
parameter_normalization(self) ==
    LET t0 == parameter_range(self)[1]
        t1 == parameter_range(self)[2]
    IN  IF t1 = t0
        THEN [finite |-> FALSE, self |-> self,
              transforms |-> <<[scalar |-> 0, move |-> 0]>>]
        ELSE LET x == FDiv(One, t1 - t0)
                 y == FMul(-t0, x)
             IN  [finite |-> TRUE,
                  self |-> parameter_transform(self, x, y),
                  transforms |-> <<[scalar |-> x, move |-> y]>>]

\* parameter_normalization has not been called.
NoNorm == [called |-> FALSE, finite |-> TRUE, range |-> <<0, 0>>, transforms |-> <<>>]

\* No call of parameter_transformed has been made.
NoCall == [self |-> NoCurve, scalar |-> 0, move |-> 0]

\* The state of the reparametrization side before anything is called.
TransformIdle ==
    /\ tcurve = NoCurve
    /\ stackLimit = 0
    /\ call = NoCall
    /\ stack = <<>>
    /\ proc = "idle"
    /\ transformed = NoCurve
    /\ trials = 0
    /\ trial = 0
    /\ hpc = "none"
    /\ sign = 0
    /\ a = 0
    /\ b = 0
    /\ norm = NoNorm

---------------------------------------------------------------------------
(* The curve contract and the two reference curves                          *)

RECURSIVE Pow2(_)
Pow2(n) == IF n = 0 THEN 1 ELSE 2 * Pow2(n - 1)

\* The values of usize.
Usize == 0 .. (Pow2(UsizeBits) - 1)

\* The unit curve `()` and the two-point step curves `(usize, usize)`.
UnitCurve == <<>>

StepCurves == Usize \X Usize

\* impl ParametricCurve for (): subs, der and der2 return ().
unit_subs(self, t) == <<>>

unit_der(self, t) == [panicked |-> FALSE, value |-> <<>>]

\* impl ParametricCurve for () and for (usize, usize): parameter_range is
\* (0.0, 1.0).
unit_parameter_range(self) == <<0, One>>

step_parameter_range(self) == <<0, One>>

\* <(usize, usize) as ParametricCurve>::subs
step_subs(self, t) == IF t < Half THEN self[1] ELSE self[2]

\* self.1 - self.0 on usize: when self.1 < self.0 the subtraction overflows,
\* which panics in a build with overflow checks and wraps in one without.
usize_sub(x, y, checked) ==
    IF x >= y
    THEN [panicked |-> FALSE, value |-> x - y]
    ELSE IF checked
         THEN [panicked |-> TRUE, value |-> 0]
         ELSE [panicked |-> FALSE, value |-> (x - y) % Pow2(UsizeBits)]

\* <(usize, usize) as ParametricCurve>::der
step_der(self, t, checked) == usize_sub(self[2], self[1], checked)

\* <(usize, usize) as ParametricCurve>::der2
step_der2(self, t, checked) == usize_sub(self[2], self[1], checked)

\* The methods every ParametricCurve provides, by implementation.
subs(self, t) == IF self = UnitCurve THEN unit_subs(self, t) ELSE step_subs(self, t)

der(self, t, checked) ==
    IF self = UnitCurve THEN unit_der(self, t) ELSE step_der(self, t, checked)

der2(self, t, checked) ==
    IF self = UnitCurve THEN unit_der(self, t) ELSE step_der2(self, t, checked)

ParametricCurve_parameter_range(self) ==
    IF self = UnitCurve THEN unit_parameter_range(self) ELSE step_parameter_range(self)

\* Variant of ParametricCurve::front that takes the end of the range.
front_at_end(self) ==
    LET t == ParametricCurve_parameter_range(self)[2] IN subs(self, t)

\* ParametricCurve::front, the default method
front(self) ==
    LET t == ParametricCurve_parameter_range(self)[1] IN subs(self, t)

\* ParametricCurve::back, the default method
back(self) ==
    LET t == ParametricCurve_parameter_range(self)[2] IN subs(self, t)

---------------------------------------------------------------------------
(* ConcatError::point_map                                                   *)

\* The values of the point type U that a function f: T -> U maps to.
MappedPointValues == {"u", "v"}

\* The functions f passed to point_map.
PointFunctions == [PointValues -> MappedPointValues]

\* The values of ConcatError<T>.
ConcatErrors ==
    { DisconnectedParameters(x, y) : x \in 0..MaxT, y \in 0..MaxT }
      \cup { DisconnectedPoints(p, q) : p \in PointValues, q \in PointValues }

\* Variant of ConcatError::point_map that maps the two points in the other
\* order.
point_map_swapped(self, f) ==
    IF self.kind = "DisconnectedParameters"
    THEN [err |-> DisconnectedParameters(self.a, self.b), applied |-> <<>>]
    ELSE [err |-> DisconnectedPoints(f[self.b], f[self.a]),
          applied |-> <<self.b, self.a>>]

\* ConcatError::point_map(self, f): the mapped error, and the arguments f
\* was applied to, in order.
point_map(self, f) ==
    IF self.kind = "DisconnectedParameters"
    THEN [err |-> DisconnectedParameters(self.a, self.b), applied |-> <<>>]
    ELSE [err |-> DisconnectedPoints(f[self.a], f[self.b]),
          applied |-> <<self.a, self.b>>]

---------------------------------------------------------------------------
(* The client evaluating a reference curve                                  *)

NoOut == [op |-> "none"]

\* The curve side before a client has a curve.
CurveIdle ==
    /\ scurve = UnitCurve
    /\ overflowChecks = FALSE
    /\ out = NoOut

\* The parameters a client evaluates at: the domain [0, 1].
Parameters == 0 .. One

Subs ==
    /\ \E t \in Parameters :
         out' = [op |-> "subs", t |-> t, value |-> subs(scurve, t)]
    /\ UNCHANGED <<scurve, overflowChecks>>
    /\ UNCHANGED <<collectorVars, transformVars>>

Der ==
    /\ \E t \in Parameters :
         out' = [op |-> "der", t |-> t, result |-> der(scurve, t, overflowChecks)]
    /\ UNCHANGED <<scurve, overflowChecks>>
    /\ UNCHANGED <<collectorVars, transformVars>>

Der2 ==
    /\ \E t \in Parameters :
         out' = [op |-> "der2", t |-> t, result |-> der2(scurve, t, overflowChecks)]
    /\ UNCHANGED <<scurve, overflowChecks>>
    /\ UNCHANGED <<collectorVars, transformVars>>

Front ==
    /\ out' = [op |-> "front", value |-> front(scurve)]
    /\ UNCHANGED <<scurve, overflowChecks>>
    /\ UNCHANGED <<collectorVars, transformVars>>

Back ==
    /\ out' = [op |-> "back", value |-> back(scurve)]
    /\ UNCHANGED <<scurve, overflowChecks>>
    /\ UNCHANGED <<collectorVars, transformVars>>

\* error.point_map(f)
PointMap ==
    /\ \E e \in ConcatErrors, f \in PointFunctions :
         out' = [op |-> "point_map", arg |-> e, f |-> f, result |-> point_map(e, f)]
    /\ UNCHANGED <<scurve, overflowChecks>>
    /\ UNCHANGED <<collectorVars, transformVars>>

InitCurve ==
    /\ CollectorIdle
    /\ TransformIdle
    /\ scurve \in {UnitCurve} \cup StepCurves
    /\ overflowChecks \in BOOLEAN
    /\ out = NoOut

NextCurve ==
    \/ Subs
    \/ Der
    \/ Der2
    \/ Front
    \/ Back
    \/ PointMap

SpecCurve == InitCurve /\ [][NextCurve]_vars

---------------------------------------------------------------------------
(* ParameterTransform::parameter_transformed, the default method            *)

\* A call frame of parameter_transformed(&self, scalar, move): its arguments,
\* its local `curve` and the line it is at.
Frame(self, scalar, move) ==
    [self |-> self, scalar |-> scalar, move |-> move, curve |-> NoCurve, pc |-> "line59"]

Top == stack[Len(stack)]

\* The stack with its top frame replaced.
WithTop(f) == [stack EXCEPT ![Len(stack)] = f]

\* lines 208-216: the assertions of one trial on the value returned.  The
\* evaluations at a random interior parameter (lines 210-214) go through the
\* implementer's subs, der and der2 and are not part of this curve value.
TrialAssertionsHold(result) ==
    /\ parameter_range(result) =
         <<FMul(tcurve.t0, a) + b, FMul(tcurve.t1, a) + b>>
    /\ curve_front(result) = curve_front(tcurve)
    /\ curve_back(result) = curve_back(tcurve)

\* One step of the innermost call of parameter_transformed:
\*   line 59  let curve = self.clone();
\*   line 60  curve.parameter_transformed(scalar, move);  a nested call of the
\*            same method on the clone, which needs a new frame; with no
\*            room left for one the thread overflows its stack and aborts;
\*   line 61  curve  returned to the caller: an outer frame, which discards
\*            it, or the client, or the random test, which goes on to its
\*            assertions.
ParameterTransformedStep ==
    /\ proc = "running"
    /\ stack # <<>>
    /\ CASE Top.pc = "line59" ->
              /\ stack' = WithTop([Top EXCEPT !.curve = clone(Top.self), !.pc = "line60"])
              /\ UNCHANGED <<proc, transformed, trial, hpc>>
         [] Top.pc = "line60" ->
              IF Len(stack) < stackLimit
              THEN /\ stack' = Append(WithTop([Top EXCEPT !.pc = "line61"]),
                                      Frame(Top.curve, Top.scalar, Top.move))
                   /\ UNCHANGED <<proc, transformed, trial, hpc>>
              ELSE /\ proc' = "overflow"
                   /\ UNCHANGED <<stack, transformed, trial, hpc>>
         [] Top.pc = "line61" ->
              /\ stack' = SubSeq(stack, 1, Len(stack) - 1)
              /\ IF Len(stack) > 1
                 THEN UNCHANGED <<proc, transformed, trial, hpc>>
                 ELSE /\ transformed' = Top.curve
                      /\ proc' = "returned"
                      /\ IF hpc = "none"
                         THEN UNCHANGED <<trial, hpc>>
                         ELSE IF TrialAssertionsHold(Top.curve)
                              THEN trial' = trial + 1 /\ hpc' = "loop"
                              ELSE hpc' = "assert_failed" /\ UNCHANGED trial
    /\ UNCHANGED <<tcurve, stackLimit, call, trials, sign, a, b>>
    /\ UNCHANGED <<collectorVars, curveVars, norm>>

---------------------------------------------------------------------------
(* The callers of parameter_transformed                                     *)

\* A curve, and a thread whose stack holds some number of frames.
InitTransform ==
    /\ CollectorIdle
    /\ CurveIdle
    /\ tcurve \in TransformCurves
    /\ stackLimit \in 1..MaxStack
    /\ call = NoCall
    /\ stack = <<>>
    /\ proc = "idle"
    /\ transformed = NoCurve
    /\ trials = 0
    /\ trial = 0
    /\ hpc = "none"
    /\ sign = 0
    /\ a = 0
    /\ b = 0
    /\ norm = NoNorm

\* The scalars and moves a client passes.
ScalarValues == (-MaxScalar) .. MaxScalar

MoveValues == (-MaxMove) .. MaxMove

\* A client evaluates curve.parameter_transformed(scalar, move).
CallParameterTransformed ==
    /\ proc = "idle"
    /\ hpc = "none"
    /\ \E scalar \in ScalarValues, move \in MoveValues :
         /\ call' = [self |-> tcurve, scalar |-> scalar, move |-> move]
         /\ stack' = <<Frame(tcurve, scalar, move)>>
    /\ proc' = "running"
    /\ UNCHANGED <<tcurve, stackLimit, transformed, trials, trial, hpc, sign, a, b>>
    /\ UNCHANGED <<collectorVars, curveVars, norm>>

\* A client evaluates curve.parameter_normalization(), which changes the
\* curve in place.  A curve whose range is no longer finite is not followed
\* further.
ParameterNormalization ==
    /\ proc = "idle"
    /\ hpc = "none"
    /\ norm.finite
    /\ LET r == parameter_normalization(tcurve) IN
       /\ tcurve' = r.self
       /\ norm' = [called |-> TRUE, finite |-> r.finite,
                   range |-> parameter_range(tcurve), transforms |-> r.transforms]
    /\ UNCHANGED <<stackLimit, call, stack, proc, transformed, trials, trial, hpc,
                   sign, a, b>>
    /\ UNCHANGED <<collectorVars, curveVars>>

\* parameter_transform_random_test(curve, trials) is called.
StartRandomTest ==
    /\ proc = "idle"
    /\ hpc = "none"
    /\ \E n \in 0..MaxTrials : trials' = n
    /\ trial' = 0
    /\ hpc' = "loop"
    /\ UNCHANGED <<tcurve, stackLimit, call, stack, proc, transformed, sign, a, b>>
    /\ UNCHANGED <<collectorVars, curveVars, norm>>

\* line 192: (0..trials).for_each(..) starts the next trial;
\* line 200: let mut sign = 0.
BeginTrial ==
    /\ hpc = "loop"
    /\ trial < trials
    /\ sign' = 0
    /\ hpc' = "sign"
    /\ UNCHANGED <<tcurve, stackLimit, call, stack, proc, transformed, trials, trial, a, b>>
    /\ UNCHANGED <<collectorVars, curveVars, norm>>

\* line 192: the range is exhausted and the test returns.
FinishRandomTest ==
    /\ hpc = "loop"
    /\ trial = trials
    /\ hpc' = "done"
    /\ UNCHANGED <<tcurve, stackLimit, call, stack, proc, transformed, trials, trial, sign, a, b>>
    /\ UNCHANGED <<collectorVars, curveVars, norm>>

\* i32::signum of a random i32.
SignumValues == {-1, 0, 1}

\* lines 201-203: while sign == 0 { sign = i32::signum(rand::random::<i32>()) }
DrawSign ==
    /\ hpc = "sign"
    /\ \E x \in SignumValues :
         /\ sign' = x
         /\ hpc' = IF x = 0 THEN "sign" ELSE "draw"
    /\ UNCHANGED <<tcurve, stackLimit, call, stack, proc, transformed, trials, trial, a, b>>
    /\ UNCHANGED <<collectorVars, curveVars, norm>>

\* rand::random::<f64>(): a value of [0, 1).
RandomF64 == 0 .. (One - 1)

\* line 204: sign as f64 * rand::random::<f64>() + 0.5
random_scale(s, r) == s * r + Half

\* line 205: rand::random::<f64>() * 2.0
random_move(r) == r * 2

\* lines 204-206: a and b are drawn and curve.parameter_transformed(a, b) is
\* called.
DrawAndCall ==
    /\ hpc = "draw"
    /\ \E r1 \in RandomF64, r2 \in RandomF64 :
         /\ a' = random_scale(sign, r1)
         /\ b' = random_move(r2)
         /\ call' = [self |-> tcurve, scalar |-> random_scale(sign, r1),
                      move |-> random_move(r2)]
         /\ stack' = <<Frame(tcurve, random_scale(sign, r1), random_move(r2))>>
    /\ proc' = "running"
    /\ hpc' = "asserts"
    /\ UNCHANGED <<tcurve, stackLimit, transformed, trials, trial, sign>>
    /\ UNCHANGED <<collectorVars, curveVars, norm>>

NextTransform ==
    \/ CallParameterTransformed
    \/ ParameterNormalization
    \/ ParameterTransformedStep
    \/ StartRandomTest
    \/ BeginTrial
    \/ FinishRandomTest
    \/ DrawSign
    \/ DrawAndCall

SpecTransform == InitTransform /\ [][NextTransform]_vars

\* The thread runs on: a step that can be taken is taken.
FairSpecTransform == SpecTransform /\ WF_vars(NextTransform)

---------------------------------------------------------------------------
(* The client of a collector                                               *)

Init ==
    /\ CollectorIdle
    /\ TransformIdle
    /\ CurveIdle

\* collector.try_concat(&seg)
TryConcat ==
    /\ collector.tag # "Moved"
    /\ Len(calls) < MaxCalls
    /\ \E seg \in Segments :
         LET r == CurveCollector_try_concat(collector, seg) IN
         /\ collector' = r.self
         /\ calls' = Append(calls, [seg |-> seg, ok |-> r.ret.ok])
         /\ ret' = [op |-> "try_concat", result |-> r.ret, arg |-> seg,
                     argAfter |-> r.curve, checks |-> r.checks]
    /\ UNCHANGED <<transformVars, curveVars>>

\* collector.is_singleton()
IsSingleton ==
    /\ collector.tag # "Moved"
    /\ ret' = [op |-> "is_singleton", result |-> is_singleton(collector)]
    /\ UNCHANGED <<collector, calls>>
    /\ UNCHANGED <<transformVars, curveVars>>

\* collector.unwrap()
Unwrap ==
    /\ collector.tag # "Moved"
    /\ ret' = [op |-> "unwrap", result |-> unwrap(collector)]
    /\ collector' = Moved
    /\ UNCHANGED calls
    /\ UNCHANGED <<transformVars, curveVars>>

\* Option::from(collector)
IntoOption ==
    /\ collector.tag # "Moved"
    /\ ret' = [op |-> "from", result |-> from(collector)]
    /\ collector' = Moved
    /\ UNCHANGED calls
    /\ UNCHANGED <<transformVars, curveVars>>

Next ==
    \/ TryConcat
    \/ IsSingleton
    \/ Unwrap
    \/ IntoOption

Spec == Init /\ [][Next]_vars

---------------------------------------------------------------------------
(* Claims about the collector                                              *)

\* The segments passed to try_concat so far, in order.
FedSegments == [i \in 1..Len(calls) |-> calls[i].seg]

\* The step is a call of CurveCollector::try_concat.
IsTryConcatStep == Len(calls') = Len(calls) + 1

\* C3: try_concat on a Singleton collector returns Ok for every segment,
\* leaves the collector as Curve holding the segment converted into C, and
\* does not invoke C::try_concat, so no ConcatError comes out of the first
\* call.
C3_SingletonAcceptsAnySegment ==
    [][ (collector.tag = "Singleton" /\ IsTryConcatStep) =>
          /\ ret'.result.ok
          /\ ret'.result.err.kind = "none"
          /\ ret'.checks = 0
          /\ collector'.tag = "Curve"
          /\ collector'.curve = <<ret'.arg>>
          /\ calls'[Len(calls')].ok ]_vars

\* A first try_concat call has been made with a segment that does not start
\* at parameter 0 and whose two points differ.
C3_Witness ==
    /\ Len(calls) = 1
    /\ ret.op = "try_concat"
    /\ ret.arg.t0 # 0
    /\ ret.arg.p0 # ret.arg.p1
    /\ collector.tag = "Curve"

\* C4: try_concat on a collector holding Curve(c): when c.try_concat(segment)
\* is Err(e) the call returns Err(e) and the collector still holds c; when
\* it is Ok(c2) the call returns Ok and the collector holds c2.  The segment
\* is unchanged either way.
C4_CurveConcatOrUnchanged ==
    [][ (collector.tag = "Curve" /\ IsTryConcatStep) =>
          LET r == Concat_try_concat(collector.curve, ret'.arg) IN
          /\ ret'.argAfter = ret'.arg
          /\ ret'.arg = calls'[Len(calls')].seg
          /\ IF r.ok
             THEN /\ ret'.result.ok
                  /\ collector' = Curve(r.value)
             ELSE /\ ~ret'.result.ok
                  /\ ret'.result.err = r.err
                  /\ collector' = collector ]_vars

\* A try_concat on a held curve has failed with DisconnectedPoints after an
\* earlier one succeeded.
C4_Witness ==
    /\ Len(calls) = 3
    /\ calls[2].ok
    /\ ~calls[3].ok
    /\ ret.op = "try_concat"
    /\ ret.result.err.kind = "DisconnectedPoints"
    /\ collector.tag = "Curve"
    /\ Len(collector.curve) = 2

\* Direct left-to-right concatenation ((S1.into() ++ S2) ++ ...) ++ Sn with
\* C::try_concat; a failed step makes the whole result a failure.
RECURSIVE DirectConcat(_, _)
DirectConcat(segs, n) ==
    IF n = 1
    THEN Ok(into(segs[1]))
    ELSE LET acc == DirectConcat(segs, n - 1) IN
         IF acc.ok THEN Concat_try_concat(acc.value, segs[n]) ELSE acc

\* C5: folding segments that each satisfy the concatenation precondition
\* against the accumulated curve ends in Curve(r), r the direct
\* left-to-right concatenation; with no segment the collector is Singleton.
C5_FoldEqualsDirectConcat ==
    collector.tag # "Moved" =>
        IF calls = <<>>
        THEN collector = Singleton
        ELSE LET d == DirectConcat(FedSegments, Len(calls)) IN
             d.ok => /\ \A i \in 1..Len(calls) : calls[i].ok
                     /\ collector = Curve(d.value)

\* Three segments have been folded, all accepted, the last two different.
C5_Witness ==
    /\ Len(calls) = 3
    /\ \A i \in 1..3 : calls[i].ok
    /\ calls[2].seg # calls[3].seg
    /\ collector.tag = "Curve"
    /\ Len(collector.curve) = 3

\* Some try_concat call so far has returned Ok.
SomeCallOk == \E i \in 1..Len(calls) : calls[i].ok

\* C6: is_singleton() is true exactly when no try_concat call has returned
\* Ok; the collector never goes from Curve back to Singleton; is_singleton
\* changes nothing.
C6_SingletonIffNothingAccepted ==
    [][ /\ (collector'.tag # "Moved" => (is_singleton(collector') <=> ~SomeCallOk'))
        /\ (ret'.op = "is_singleton" =>
               /\ ret'.result = ~SomeCallOk'
               /\ collector' = collector
               /\ calls' = calls)
        /\ (collector.tag = "Curve" => collector'.tag # "Singleton") ]_vars

\* is_singleton() has answered false after a failed call that followed an
\* accepted one.
C6_Witness ==
    /\ ret.op = "is_singleton"
    /\ ret.result = FALSE
    /\ Len(calls) = 2
    /\ ~calls[2].ok

\* C7: for Curve(c), unwrap returns c and the Option conversion gives
\* Some(c); for Singleton, unwrap panics and the conversion gives None; so
\* unwrap panics exactly when is_singleton() is true.
C7_UnwrapAndOptionAgree ==
    [][ collector.tag # "Moved" =>
          /\ (unwrap(collector).panicked <=> is_singleton(collector))
          /\ (from(collector).some <=> ~unwrap(collector).panicked)
          /\ (ret'.op = "unwrap" /\ collector'.tag = "Moved" =>
                IF collector.tag = "Curve"
                THEN ~ret'.result.panicked /\ ret'.result.value = collector.curve
                ELSE ret'.result.panicked)
          /\ (ret'.op = "from" /\ collector'.tag = "Moved" =>
                IF collector.tag = "Curve"
                THEN /\ ret'.result.some
                     /\ ret'.result.value = collector.curve
                     /\ ret'.result.value = unwrap(collector).value
                ELSE ~ret'.result.some) ]_vars

\* unwrap has panicked on a collector that never accepted a segment.
C7_Witness ==
    /\ ret.op = "unwrap"
    /\ ret.result.panicked
    /\ calls = <<>>

---------------------------------------------------------------------------
(* Claims about parameter_transformed                                       *)

\* The outermost call of parameter_transformed has ended, by returning or
\* by the thread aborting.
CallEnded == proc \in {"returned", "overflow"}

\* C1: parameter_transformed(scalar, move) returns a clone of the receiver
\* with parameter_transform(scalar, move) applied once, so that its range
\* is (t0 * scalar + move, t1 * scalar + move), and leaves the receiver as
\* it was.
C1_ReturnsTransformedClone ==
    CallEnded =>
        /\ proc = "returned"
        /\ transformed = parameter_transform(clone(call.self), call.scalar, call.move)
        /\ parameter_range(transformed) =
             <<FMul(call.self.t0, call.scalar) + call.move,
               FMul(call.self.t1, call.scalar) + call.move>>
        /\ tcurve = call.self

\* C2: every call of parameter_transformed reaches its return, and every
\* trial the random test starts finishes.
C2_EveryCallReturns ==
    /\ (proc = "running") ~> (proc = "returned")
    /\ (hpc \in {"sign", "draw", "asserts"}) ~> (hpc \in {"loop", "assert_failed"})

---------------------------------------------------------------------------
(* Claims about the curve contract and point_map                            *)

\* C8: point_map keeps the variant: DisconnectedParameters(a, b) maps to
\* itself without f being applied; DisconnectedPoints(p, q) maps to
\* DisconnectedPoints(f(p), f(q)), in that order.
C8_PointMapKeepsVariant ==
    out.op = "point_map" =>
        IF out.arg.kind = "DisconnectedParameters"
        THEN /\ out.result.err.kind = "DisconnectedParameters"
             /\ out.result.err.a = out.arg.a
             /\ out.result.err.b = out.arg.b
             /\ out.result.applied = <<>>
        ELSE /\ out.result.err.kind = "DisconnectedPoints"
             /\ out.result.err.a = out.f[out.arg.a]
             /\ out.result.err.b = out.f[out.arg.b]

\* DisconnectedPoints(p, q) with p # q has been mapped by an f that tells
\* the two points apart.
C8_Witness ==
    /\ out.op = "point_map"
    /\ out.arg.kind = "DisconnectedPoints"
    /\ out.arg.a # out.arg.b
    /\ out.f[out.arg.a] # out.f[out.arg.b]
    /\ out.result.err.a = out.f[out.arg.a]

\* C9: front() equals subs(t0) and back() equals subs(t1), (t0, t1) the
\* parameter range; for the step curve (p, q) that is front() = subs(0) = p
\* and back() = subs(1) = q.
C9_FrontBackAreEndValues ==
    /\ out.op = "front" =>
         /\ out.value = subs(scurve, ParametricCurve_parameter_range(scurve)[1])
         /\ scurve \in StepCurves =>
              out.value = subs(scurve, 0) /\ out.value = scurve[1]
    /\ out.op = "back" =>
         /\ out.value = subs(scurve, ParametricCurve_parameter_range(scurve)[2])
         /\ scurve \in StepCurves =>
              out.value = subs(scurve, One) /\ out.value = scurve[2]

\* front() has been evaluated on a step curve whose two points differ.
C9_Witness ==
    /\ out.op = "front"
    /\ scurve \in StepCurves
    /\ scurve[1] # scurve[2]
    /\ out.value = scurve[1]

\* C10: on the step curve (first_point, second_point), der(t) and der2(t)
\* are second_point - first_point for every t of [0, 1] and every pair of
\* usize values, without overflow or panic.
C10_DerIsDifference ==
    (out.op \in {"der", "der2"} /\ scurve \in StepCurves) =>
        /\ ~out.result.panicked
        /\ out.result.value = scurve[2] - scurve[1]

\* Every frame is at line 59 or line 60, or is waiting at line 61 for the
\* nested call above it: the innermost call is never at line 61, so no call
\* of parameter_transformed returns, whatever the size of the stack.
NoCallReachesItsReturn ==
    /\ proc # "returned"
    /\ stack # <<>> => Top.pc \in {"line59", "line60"}
    /\ \A i \in 1..Len(stack) : stack[i].pc = "line61" => i < Len(stack)

\* With second_point >= first_point, der and der2 are the difference at
\* every parameter, in either build.
DerIsDifferenceWhenOrdered ==
    (out.op \in {"der", "der2"} /\ scurve \in StepCurves /\ scurve[2] >= scurve[1]) =>
        /\ ~out.result.panicked
        /\ out.result.value = scurve[2] - scurve[1]

---------------------------------------------------------------------------
(* Claims about parameter_normalization and the random draws                *)

\* The range the last parameter_normalization call read, and the arguments
\* of its parameter_transform call.
NormT0 == norm.range[1]

NormT1 == norm.range[2]

NormScalar == norm.transforms[1].scalar

NormMove == norm.transforms[1].move

\* C11: parameter_normalization on a curve with range (t0, t1), t0 # t1,
\* calls parameter_transform exactly once, with scalar = 1 / (t1 - t0) and
\* move = -t0 / (t1 - t0), so that the affine image of (t0, t1) is (0, 1);
\* on a curve already on (0, 1) the arguments are scalar = 1, move = 0.
C11_NormalizationMapsToUnitRange ==
    (norm.called /\ NormT0 # NormT1) =>
        /\ Len(norm.transforms) = 1
        /\ NormScalar = FDiv(One, NormT1 - NormT0)
        /\ NormMove = FDiv(-NormT0, NormT1 - NormT0)
        /\ FMul(NormT0, NormScalar) + NormMove = 0
        /\ FMul(NormT1, NormScalar) + NormMove = One
        /\ parameter_range(tcurve) = <<0, One>>
        /\ (norm.range = <<0, One>> => NormScalar = One /\ NormMove = 0)

\* What parameter_normalization does in every case: one parameter_transform
\* call with a = 1 / (t1 - t0) and b = -t0 * a as computed; the start of the
\* range goes to 0; the end goes to 1 when a * (t1 - t0) is 1 and t0 * a is
\* exact; a curve on (0, 1) is left as it is.
NormalizationAsComputed ==
    (norm.called /\ NormT0 # NormT1) =>
        /\ Len(norm.transforms) = 1
        /\ NormScalar = FDiv(One, NormT1 - NormT0)
        /\ NormMove = FMul(-NormT0, NormScalar)
        /\ parameter_range(tcurve)[1] = 0
        /\ (NormScalar * (NormT1 - NormT0) = One * One =>
              parameter_range(tcurve) = <<0, One>>)
        /\ (norm.range = <<0, One>> =>
              /\ NormScalar = One
              /\ NormMove = 0
              /\ parameter_range(tcurve) = <<0, One>>)

\* C12: in every trial of the random test, for every outcome of the draws
\* (sign in {-1, +1}, r in [0, 1)), the scale a passed to
\* parameter_transformed is nonzero with magnitude between 0.5 and 1.5 (the
\* end 0.5, drawn at r = 0, counted as inside), and the translation b lies
\* in [0, 2).
C12_ScaleIsNonzero ==
    hpc = "asserts" =>
        /\ a # 0
        /\ Half <= Abs(a)
        /\ Abs(a) < 3 * Half
        /\ 0 <= b
        /\ b < 2 * One

\* What the draws at lines 204-205 give: a = sign * r + 0.5 lies in
\* [0.5, 1.5) for sign = 1 and in (-0.5, 0.5] for sign = -1, zero included;
\* b lies in [0, 2).
DrawnScaleAndMove ==
    hpc = "asserts" =>
        /\ sign \in {-1, 1}
        /\ (sign = 1 => Half <= a /\ a < 3 * Half)
        /\ (sign = -1 => -Half < a /\ a <= Half)
        /\ 0 <= b
        /\ b < 2 * One

=============================================================================
